---- MODULE Spec2Model ----
(***************************************************************************)
(* Model of backend/app.py: the J1939 frame encoder (J1939Encoder) and the *)
(* live simulation scheduler (start_live_simulation, stop_live_simulation, *)
(* live_simulation_worker).                                                *)
(*                                                                         *)
(* Numbers.  Physical values, offsets and ranges are fixed-point integers  *)
(* in units of 1/PhysScale; a resolution is the rational res_num/res_den.  *)
(* A raw value handed to encode_value is the set of positions of its 1     *)
(* bits (Python integers are unbounded, a 64-bit field does not fit the    *)
(* integers of the model checker); bytes of the frame are integers 0..255. *)
(***************************************************************************)
EXTENDS Integers, Sequences, FiniteSets, TLC

VARIABLES live_simulation_active, wpc, spc, lastEvent, pubToggle, ack,
          startsInRow, encIn, encOut

schedVars == <<live_simulation_active, wpc, spc, lastEvent, pubToggle, ack, startsInRow>>
encVars == <<encIn, encOut>>
vars == <<live_simulation_active, wpc, spc, lastEvent, pubToggle, ack,
          startsInRow, encIn, encOut>>

None == "none"

(***************************************************************************)
(* Bounds of the model                                                     *)
(***************************************************************************)
MaxWorkers == 2
MaxCallers == 2
SmallLen == 3

(***************************************************************************)
(* Program constants                                                       *)
(***************************************************************************)
PhysScale == 256
FrameBytes == 8
Priority == 6
PduThreshold == 61440

FrameBits == FrameBytes * 8

(***************************************************************************)
(* Integer helpers: Python's >>, <<, &, | and round()                      *)
(***************************************************************************)
Shl(a, n) == a * (2 ^ n)

Shr(a, n) == a \div (2 ^ n)

RECURSIVE BitAnd(_, _)
BitAnd(a, b) ==
    IF a = 0 \/ b = 0 THEN 0
    ELSE ((a % 2) * (b % 2)) + 2 * BitAnd(a \div 2, b \div 2)

RECURSIVE BitOr(_, _)
BitOr(a, b) ==
    IF a = 0 THEN b
    ELSE IF b = 0 THEN a
    ELSE (IF (a % 2) + (b % 2) > 0 THEN 1 ELSE 0) + 2 * BitOr(a \div 2, b \div 2)

\* round(n / d): nearest integer, ties to the even neighbour
RoundHalfEven(n, d) ==
    LET nn == IF d < 0 THEN 0 - n ELSE n
        dd == IF d < 0 THEN 0 - d ELSE d
        q == nn \div dd
        r == nn % dd
    IN  IF 2 * r < dd THEN q
        ELSE IF 2 * r > dd THEN q + 1
        ELSE IF q % 2 = 0 THEN q ELSE q + 1

Max(a, b) == IF a >= b THEN a ELSE b

\* the 1 bits of a non-negative integer
RECURSIVE BitsFrom(_, _)
BitsFrom(n, i) ==
    IF n = 0 THEN {}
    ELSE (IF n % 2 = 1 THEN {i} ELSE {}) \cup BitsFrom(n \div 2, i + 1)

Bits(n) == BitsFrom(n, 0)

(***************************************************************************)
(* Signal catalog: LIVE_SIGNALS in declaration order                       *)
(***************************************************************************)
LIVE_SIGNALS ==
    << [id |-> "engine_speed", pgn |-> 61444, spn |-> 190,
        res_num |-> 1, res_den |-> 8, offset |-> 0,
        transmission_rate |-> 50,
        min_physical |-> 0, max_physical |-> 2056160,
        start_byte |-> 4, start_bit |-> 1, length_bits |-> 16],
       [id |-> "vehicle_speed", pgn |-> 65265, spn |-> 84,
        res_num |-> 1, res_den |-> 256, offset |-> 0,
        transmission_rate |-> 100,
        min_physical |-> 0, max_physical |-> 64254,
        start_byte |-> 2, start_bit |-> 1, length_bits |-> 16],
       [id |-> "cab_temperature", pgn |-> 65269, spn |-> 170,
        res_num |-> 1, res_den |-> 32, offset |-> (0 - 273) * PhysScale,
        transmission_rate |-> 1000,
        min_physical |-> (0 - 273) * PhysScale, max_physical |-> 1735 * PhysScale,
        start_byte |-> 2, start_bit |-> 1, length_bits |-> 16],
       [id |-> "driver_torque", pgn |-> 61444, spn |-> 512,
        res_num |-> 1, res_den |-> 1, offset |-> (0 - 125) * PhysScale,
        transmission_rate |-> 50,
        min_physical |-> (0 - 125) * PhysScale, max_physical |-> 125 * PhysScale,
        start_byte |-> 2, start_bit |-> 1, length_bits |-> 8] >>

NumSignals == Len(LIVE_SIGNALS)

\* a call either returns a value or raises an exception
Return(v) == [ok |-> TRUE, val |-> v]

Raise(e) == [ok |-> FALSE, err |-> e]

(***************************************************************************)
(* J1939Encoder                                                            *)
(***************************************************************************)
\* variant: PDU Specific is always the PGN's low byte
calculate_can_id_LowByte(pgn, source_address) ==
    LET pdu_format == BitAnd(Shr(pgn, 8), 255)
        pdu_specific == BitAnd(pgn, 255)
        id1 == Shl(BitAnd(Priority, 7), 26)
        id4 == BitOr(id1, Shl(BitAnd(pdu_format, 255), 16))
        id5 == BitOr(id4, Shl(BitAnd(pdu_specific, 255), 8))
    IN  BitOr(id5, BitAnd(source_address, 255))

calculate_can_id(pgn, source_address) ==
    LET priority == Priority
        pdu_format == BitAnd(Shr(pgn, 8), 255)
        pdu_specific == IF pgn < PduThreshold THEN BitAnd(pgn, 255) ELSE 255
        id1 == Shl(BitAnd(priority, 7), 26)
        id2 == BitOr(id1, Shl(BitAnd(0, 1), 25))
        id3 == BitOr(id2, Shl(BitAnd(0, 1), 24))
        id4 == BitOr(id3, Shl(BitAnd(pdu_format, 255), 16))
        id5 == BitOr(id4, Shl(BitAnd(pdu_specific, 255), 8))
    IN  BitOr(id5, BitAnd(source_address, 255))

physical_to_raw(physical_value, res_num, res_den, offset) ==
    IF res_num = 0 THEN Raise("ValueError")
    ELSE LET raw == RoundHalfEven((physical_value - offset) * res_den,
                                  PhysScale * res_num)
         IN  Return(Max(0, raw))

RECURSIVE EncodeLoop(_, _, _, _, _, _)
EncodeLoop(data, raw_value, byte_idx, bit_idx, length_bits, i) ==
    IF i = length_bits THEN Return(data)
    ELSE LET current_byte == byte_idx + ((bit_idx + i) \div 8)
             current_bit == (bit_idx + i) % 8
         IN  IF current_byte >= FrameBytes THEN Raise("IndexError")
             ELSE EncodeLoop(
                    [data EXCEPT ![current_byte] =
                        IF i \in raw_value
                        THEN BitOr(@, Shl(1, current_bit))
                        ELSE BitAnd(@, 255 - Shl(1, current_bit))],
                    raw_value, byte_idx, bit_idx, length_bits, i + 1)

\* variant: the start bit inside the start byte is ignored
encode_value_NoBitOffset(raw_value, start_byte, start_bit, length_bits) ==
    LET data == [b \in 0..(FrameBytes - 1) |-> 0]
        max_value == 0..(length_bits - 1)
        clamped == IF \E b \in raw_value : b >= length_bits
                   THEN max_value ELSE raw_value
    IN  EncodeLoop(data, clamped, start_byte - 1, 0, length_bits, 0)

encode_value(raw_value, start_byte, start_bit, length_bits) ==
    LET data == [b \in 0..(FrameBytes - 1) |-> 0]
        byte_idx == start_byte - 1
        bit_idx == start_bit - 1
        max_value == 0..(length_bits - 1)
        clamped == IF \E b \in raw_value : b >= length_bits
                   THEN max_value ELSE raw_value
    IN  EncodeLoop(data, clamped, byte_idx, bit_idx, length_bits, 0)

encode_spn(physical_value, spn_config) ==
    LET r == physical_to_raw(physical_value, spn_config.res_num,
                             spn_config.res_den, spn_config.offset)
    IN  IF ~r.ok THEN r
        ELSE LET raw_value == r.val
                 d == encode_value(Bits(raw_value), spn_config.start_byte,
                                   spn_config.start_bit, spn_config.length_bits)
                 can_id == calculate_can_id(spn_config.pgn, 0)
             IN  IF ~d.ok THEN d
                 ELSE Return([physical_value |-> physical_value,
                              raw_value |-> raw_value,
                              data_array |-> d.val,
                              can_id |-> can_id,
                              pgn |-> spn_config.pgn,
                              spn |-> spn_config.spn])

(***************************************************************************)
(* Scheduler state                                                         *)
(*   live_simulation_active  the run flag (module global, line 262)        *)
(*   wpc[w]   position of worker thread w: no thread, at the while test,   *)
(*            or inside the pass about to handle signal number i           *)
(*   spc[c]   position of a thread running the start handler               *)
(*   lastEvent, pubToggle  the last live_signal event sent and a bit that  *)
(*            flips at every emit                                          *)
(*   ack      the last completed command, what it acknowledged, and a bit  *)
(*            that flips at every completed command                        *)
(*   startsInRow  completed start commands since the last stop (0, 1, 2+)  *)
(***************************************************************************)
Workers == 1..MaxWorkers

Callers == 1..MaxCallers

Dead == [st |-> "dead", i |-> 0]

AtCheck == [st |-> "check", i |-> 0]

InPass(i) == [st |-> "pass", i |-> i]

Alive == {w \in Workers : wpc[w].st # "dead"}

InFlight == {c \in Callers : spc[c] # "idle"}

NoEvent == [signal_id |-> None, index |-> 0, physical_value |-> 0,
            raw_value |-> 0, can_id |-> 0]

NoAck == [cmd |-> None, acks |-> <<>>, after |-> FALSE, seq |-> FALSE]

NoInput == [kind |-> None]

Pending == [done |-> FALSE]

Bump(n) == IF n >= 2 THEN 2 ELSE n + 1

\* random.uniform(min_physical, max_physical): the two ends and the middle
PhysicalDraws(config) ==
    {config.min_physical, config.max_physical,
     (config.min_physical + config.max_physical) \div 2}

\* encoder.encode_spn(physical_value, config) for every draw of every signal
EncodedDraws ==
    [i \in 1..NumSignals |->
        [physical_value \in PhysicalDraws(LIVE_SIGNALS[i]) |->
            encode_spn(physical_value, LIVE_SIGNALS[i])]]

SchedInit ==
    /\ live_simulation_active = FALSE
    /\ wpc = [w \in Workers |-> Dead]
    /\ spc = [c \in Callers |-> "idle"]
    /\ lastEvent = NoEvent
    /\ pubToggle = FALSE
    /\ ack = NoAck
    /\ startsInRow = 0

Init ==
    /\ SchedInit
    /\ encIn = NoInput
    /\ encOut = Pending

(***************************************************************************)
(* start_live_simulation: the test of the flag, the write of the flag and  *)
(* the thread start are separate steps of the handler's thread, so other   *)
(* handlers and the workers interleave with them.  A call that finds the   *)
(* flag clear is admitted only while a worker slot remains for it          *)
(* (MaxWorkers bounds the threads of the model, not of the program).       *)
(***************************************************************************)
\* variant: the handler does not test the flag
StartCheck_NoTest(c) ==
    /\ spc[c] = "idle"
    /\ Cardinality(Alive) + Cardinality(InFlight) < MaxWorkers
    /\ spc' = [spc EXCEPT ![c] = "set"]
    /\ UNCHANGED <<ack, startsInRow, live_simulation_active, wpc, lastEvent,
                   pubToggle, encVars>>

StartCheck(c) ==
    /\ spc[c] = "idle"
    /\ IF live_simulation_active
       THEN /\ ack' = [cmd |-> "start", acks |-> <<>>,
                       after |-> live_simulation_active, seq |-> ~ack.seq]
            /\ startsInRow' = Bump(startsInRow)
            /\ UNCHANGED spc
       ELSE /\ Cardinality(Alive) + Cardinality(InFlight) < MaxWorkers
            /\ spc' = [spc EXCEPT ![c] = "set"]
            /\ UNCHANGED <<ack, startsInRow>>
    /\ UNCHANGED <<live_simulation_active, wpc, lastEvent, pubToggle, encVars>>

StartSet(c) ==
    /\ spc[c] = "set"
    /\ live_simulation_active' = TRUE
    /\ spc' = [spc EXCEPT ![c] = "spawn"]
    /\ UNCHANGED <<wpc, lastEvent, pubToggle, ack, startsInRow, encVars>>

StartSpawn(c) ==
    /\ spc[c] = "spawn"
    /\ \E w \in Workers :
          /\ wpc[w] = Dead
          /\ \A v \in Workers : wpc[v] = Dead => w <= v
          /\ wpc' = [wpc EXCEPT ![w] = AtCheck]
    /\ ack' = [cmd |-> "start", acks |-> <<TRUE>>, after |-> TRUE, seq |-> ~ack.seq]
    /\ startsInRow' = Bump(startsInRow)
    /\ spc' = [spc EXCEPT ![c] = "idle"]
    /\ UNCHANGED <<live_simulation_active, lastEvent, pubToggle, encVars>>

(***************************************************************************)
(* stop_live_simulation                                                    *)
(***************************************************************************)
\* variant: the handler joins the worker thread before it returns
Stop_Joins ==
    /\ Alive = {}
    /\ live_simulation_active' = FALSE
    /\ ack' = [cmd |-> "stop", acks |-> <<FALSE>>, after |-> FALSE, seq |-> ~ack.seq]
    /\ startsInRow' = 0
    /\ UNCHANGED <<wpc, spc, lastEvent, pubToggle, encVars>>

Stop ==
    /\ live_simulation_active' = FALSE
    /\ ack' = [cmd |-> "stop", acks |-> <<FALSE>>, after |-> FALSE, seq |-> ~ack.seq]
    /\ startsInRow' = 0
    /\ UNCHANGED <<wpc, spc, lastEvent, pubToggle, encVars>>

(***************************************************************************)
(* live_simulation_worker                                                  *)
(***************************************************************************)
\* variant: while True
WorkerCheck_IgnoresFlag(w) ==
    /\ wpc[w] = AtCheck
    /\ wpc' = [wpc EXCEPT ![w] = InPass(1)]
    /\ UNCHANGED <<live_simulation_active, spc, lastEvent, pubToggle, ack,
                   startsInRow, encVars>>

\* while live_simulation_active:
WorkerCheck(w) ==
    /\ wpc[w] = AtCheck
    /\ wpc' = [wpc EXCEPT ![w] = IF live_simulation_active THEN InPass(1) ELSE Dead]
    /\ UNCHANGED <<live_simulation_active, spc, lastEvent, pubToggle, ack,
                   startsInRow, encVars>>

\* one iteration of the for loop: draw, encode, emit, sleep
WorkerPublish(w) ==
    /\ wpc[w].st = "pass"
    /\ LET i == wpc[w].i
           config == LIVE_SIGNALS[i]
       IN  \E physical_value \in PhysicalDraws(config) :
              LET encoded == EncodedDraws[i][physical_value]
              IN  /\ encoded.ok
                  /\ lastEvent' = [signal_id |-> config.id, index |-> i,
                                   physical_value |-> physical_value,
                                   raw_value |-> encoded.val.raw_value,
                                   can_id |-> encoded.val.can_id]
                  /\ pubToggle' = ~pubToggle
                  /\ wpc' = [wpc EXCEPT ![w] =
                                IF i = NumSignals THEN AtCheck ELSE InPass(i + 1)]
    /\ UNCHANGED <<live_simulation_active, spc, ack, startsInRow, encVars>>

\* variant: the except clause clears the flag
WorkerFail_ClearsFlag(w) ==
    /\ wpc[w].st = "pass"
    /\ wpc' = [wpc EXCEPT ![w] = Dead]
    /\ live_simulation_active' = FALSE
    /\ UNCHANGED <<spc, lastEvent, pubToggle, ack, startsInRow, encVars>>

\* except Exception: print, break
WorkerFail(w) ==
    /\ wpc[w].st = "pass"
    /\ wpc' = [wpc EXCEPT ![w] = Dead]
    /\ UNCHANGED <<live_simulation_active, spc, lastEvent, pubToggle, ack,
                   startsInRow, encVars>>

WorkerStep(w) == WorkerCheck(w) \/ WorkerPublish(w)

Next ==
    \/ \E c \in Callers : StartCheck(c)
    \/ \E c \in Callers : StartSet(c)
    \/ \E c \in Callers : StartSpawn(c)
    \/ Stop
    \/ \E w \in Workers : WorkerCheck(w)
    \/ \E w \in Workers : WorkerPublish(w)
    \/ \E w \in Workers : WorkerFail(w)

Spec == Init /\ [][Next]_vars

\* a started thread and a handler's thread keep running
FairSpec ==
    /\ Spec
    /\ \A w \in Workers : WF_vars(WorkerStep(w))
    /\ \A c \in Callers : WF_vars(StartSet(c) \/ StartSpawn(c))

(***************************************************************************)
(* The encoder's functions applied to inputs drawn from bounded sets       *)
(***************************************************************************)
\* the definitions the encode request can name (config = LIVE_SIGNALS[signal_id])
Definitions == {LIVE_SIGNALS[i] : i \in 1..NumSignals}

\* the physical value whose raw value is n (n * resolution + offset)
PhysicalOf(config, n) ==
    config.offset + ((n * PhysScale * config.res_num) \div config.res_den)

\* in range, below and above the range, past the end of the field, and
\* half-way between two raw values
PhysicalSamples(config) ==
    PhysicalDraws(config)
      \cup {config.min_physical - PhysScale, config.max_physical + PhysScale,
            PhysicalOf(config, 2 ^ config.length_bits) + PhysScale,
            PhysicalOf(config, 0 - (2 ^ config.length_bits)) - PhysScale,
            config.offset + ((PhysScale * config.res_num) \div (2 * config.res_den)),
            config.offset + ((3 * PhysScale * config.res_num) \div (2 * config.res_den))}

SpnInputs ==
    {[kind |-> "spn", physical_value |-> pv, spn_config |-> config] :
        config \in Definitions, pv \in UNION {PhysicalSamples(d) : d \in Definitions}}

PgnSamples ==
    {0, 1, 255, 256, 4660, 61439, 61440, 61444, 65265, 65269, 65535, 65536,
     126980, 262143}

SourceAddressSamples == {0, 1, 37, 128, 255, 256, 511}

CanIdInputs ==
    {[kind |-> "can_id", pgn |-> pgn, source_address |-> sa] :
        pgn \in PgnSamples, sa \in SourceAddressSamples}

\* raw values of a field of length_bits bits: every value of a short field;
\* of a long one zero, all ones, each single bit, the two alternating
\* patterns; and one value past the end of the field
RawSamples(length_bits) ==
    LET field == 0..(length_bits - 1)
    IN  (IF length_bits <= SmallLen THEN SUBSET field ELSE {})
          \cup {{}, field, {length_bits},
                {b \in field : b % 2 = 0}, {b \in field : b % 2 = 1}}
          \cup {{b} : b \in field}

Fits(start_byte, start_bit, length_bits) ==
    ((start_byte - 1) * 8) + (start_bit - 1) + length_bits <= FrameBits

PackRaws(start_byte, start_bit, length_bits) ==
    IF Fits(start_byte, start_bit, length_bits)
    THEN RawSamples(length_bits) ELSE {0..(length_bits - 1)}

EncInit ==
    /\ SchedInit
    /\ encOut = Pending
    /\ \/ encIn \in SpnInputs
       \/ encIn \in CanIdInputs
       \/ \E sb \in 1..FrameBytes, bt \in 1..8, lb \in 1..FrameBits :
             \E raw \in PackRaws(sb, bt, lb) :
                encIn = [kind |-> "pack", raw_value |-> raw, start_byte |-> sb,
                         start_bit |-> bt, length_bits |-> lb]

ApplyEncodeSpn ==
    /\ encIn.kind = "spn"
    /\ ~encOut.done
    /\ encOut' = [done |-> TRUE,
                  res |-> encode_spn(encIn.physical_value, encIn.spn_config)]
    /\ UNCHANGED <<encIn, schedVars>>

ApplyEncodeValue ==
    /\ encIn.kind = "pack"
    /\ ~encOut.done
    /\ encOut' = [done |-> TRUE,
                  res |-> encode_value(encIn.raw_value, encIn.start_byte,
                                       encIn.start_bit, encIn.length_bits)]
    /\ UNCHANGED <<encIn, schedVars>>

ApplyCalculateCanId ==
    /\ encIn.kind = "can_id"
    /\ ~encOut.done
    /\ encOut' = [done |-> TRUE,
                  res |-> Return(calculate_can_id(encIn.pgn, encIn.source_address))]
    /\ UNCHANGED <<encIn, schedVars>>

EncNext == ApplyEncodeSpn \/ ApplyEncodeValue \/ ApplyCalculateCanId

EncSpec == EncInit /\ [][EncNext]_vars

(***************************************************************************)
(* Properties of the scheduler (checked under Spec, C7 under FairSpec)     *)
(***************************************************************************)
\* a step that completes a command, and a step that emits a live_signal event
Completes(cmd) == ack' # ack /\ ack'.cmd = cmd

Publishes == pubToggle' # pubToggle

\* C1: in every reachable state at most one live_simulation_worker thread
\* is alive.
C1_AtMostOneWorker == Cardinality(Alive) <= 1

C3_StopFrame ==
    /\ [](ENABLED Stop)
    /\ [][ Completes("stop") =>
              /\ live_simulation_active' = FALSE
              /\ wpc' = wpc
              /\ spc' = spc
              /\ lastEvent' = lastEvent /\ ~Publishes
              /\ (~live_simulation_active =>
                    UNCHANGED <<live_simulation_active, wpc>>)
         ]_vars

\* stop() was called while a worker was inside a pass: the flag is clear and
\* the worker is still where it was
C3_Witness ==
    /\ ack.cmd = "stop"
    /\ ~live_simulation_active
    /\ \E w \in Workers : wpc[w].st = "pass" /\ wpc[w].i = 2

\* C7: while the flag stays clear a worker only moves forward through its
\* current pass, publishing the event of the signal it is at, and at the
\* while test it terminates instead of beginning another pass; and a worker
\* alive with the flag clear eventually terminates unless the flag is set
\* again.
C7_StopWithinOnePass ==
    /\ [][ (~live_simulation_active /\ ~live_simulation_active') =>
              /\ \A w \in Workers :
                    /\ wpc[w] = AtCheck => wpc'[w] \in {AtCheck, Dead}
                    /\ wpc[w].st = "pass" =>
                          \/ wpc'[w] = wpc[w]
                          \/ wpc'[w] = Dead
                          \/ /\ Publishes
                             /\ lastEvent'.index = wpc[w].i
                             /\ wpc'[w] = IF wpc[w].i = NumSignals
                                          THEN AtCheck ELSE InPass(wpc[w].i + 1)
              /\ Publishes =>
                    \E w \in Workers : wpc[w].st = "pass" /\ wpc'[w] # wpc[w]
         ]_vars
    /\ \A w \in Workers :
          (~live_simulation_active /\ wpc[w] # Dead)
             ~> (wpc[w] = Dead \/ live_simulation_active)

\* after stop() the worker has finished its pass and stands at the while
\* test with the flag clear
C7_Witness ==
    /\ ack.cmd = "stop"
    /\ ~live_simulation_active
    /\ lastEvent.index = NumSignals
    /\ \E w \in Workers : wpc[w] = AtCheck

\* C8: the first live_signal event is for the first declared signal and
\* every later one is for the signal that cyclically follows the signal of
\* the event before it.
C8_RoundRobinOrder ==
    [][ Publishes => lastEvent'.index = (lastEvent.index % NumSignals) + 1 ]_vars

\* C9: a failing step inside the pass ends the worker and writes neither
\* the flag nor anything else; and with the flag set, no worker alive and no
\* start() in flight, every step that leaves the flag set (every start())
\* starts no worker and publishes nothing.
C9_FailureLeavesRunning ==
    [][ /\ \A w \in Workers :
              (wpc[w].st = "pass" /\ wpc'[w] = Dead) =>
                 /\ UNCHANGED <<live_simulation_active, spc, lastEvent,
                                pubToggle, ack, startsInRow>>
                 /\ \A v \in Workers : v # w => wpc'[v] = wpc[v]
        /\ (live_simulation_active /\ Alive = {} /\ InFlight = {}) =>
              (live_simulation_active' =>
                  /\ Alive' = {}
                  /\ InFlight' = {}
                  /\ ~Publishes)
      ]_vars

\* the worker failed in mid-pass and a later start() did nothing
C9_Witness ==
    /\ live_simulation_active
    /\ Alive = {}
    /\ InFlight = {}
    /\ lastEvent.index = 2
    /\ ack.cmd = "start" /\ ack.acks = <<>>
    /\ startsInRow = 2

\* C10: every completed start() and stop() command has produced exactly one
\* simulation_status acknowledgement, carrying the value of the flag right
\* after the command's transition request.
C10_OneAckPerCommand ==
    ack.cmd # None => (Len(ack.acks) = 1 /\ ack.acks[1] = ack.after)

(***************************************************************************)
(* Properties of the encoder (checked under EncSpec)                       *)
(***************************************************************************)
\* bit p (0 = least significant bit of byte 0) of an 8-byte frame
FrameBit(data, p) == (data[p \div 8] \div (2 ^ (p % 8))) % 2

\* the value of the len bits from bit pos on, little-endian, as its 1 bits
ReadBits(data, pos, len) == {b \in 0..(len - 1) : FrameBit(data, pos + b) = 1}

\* C4: the raw_value of a frame returned by encode_spn lies in
\* 0 .. 2^length_bits - 1, whatever the physical value.
C4_RawWithinField ==
    (encIn.kind = "spn" /\ encOut.done /\ encIn.spn_config.res_num # 0) =>
        /\ encOut.res.ok
        /\ encOut.res.val.raw_value >= 0
        /\ encOut.res.val.raw_value <= (2 ^ encIn.spn_config.length_bits) - 1

\* C5: for a span that fits the frame and a raw value that fits the field,
\* the bits of the frame returned by encode_value, read back from the
\* absolute start bit, are the raw value, and every other bit is 0.
C5_PackRoundTrip ==
    (/\ encIn.kind = "pack"
     /\ encOut.done
     /\ Fits(encIn.start_byte, encIn.start_bit, encIn.length_bits)
     /\ encIn.raw_value \subseteq 0..(encIn.length_bits - 1)) =>
        LET pos == ((encIn.start_byte - 1) * 8) + (encIn.start_bit - 1)
        IN  /\ encOut.res.ok
            /\ ReadBits(encOut.res.val, pos, encIn.length_bits) = encIn.raw_value
            /\ \A p \in 0..(FrameBits - 1) :
                  (p < pos \/ p >= pos + encIn.length_bits) =>
                      FrameBit(encOut.res.val, p) = 0

\* an 11-bit field starting at bit 6 of byte 3 (three bytes), odd bits set
C5_Witness ==
    /\ encIn.kind = "pack"
    /\ encOut.done
    /\ encIn.start_byte = 3 /\ encIn.start_bit = 6 /\ encIn.length_bits = 11
    /\ encIn.raw_value = {1, 3, 5, 7, 9}
    /\ encOut.res.ok
    /\ encOut.res.val[2] = 64 /\ encOut.res.val[3] = 85 /\ encOut.res.val[4] = 0

\* C6: the identifier is below 2^29, with priority 6 in bits 26-28, 0 in
\* bits 24-25, the PGN's high byte in bits 16-23, 0xFF (PGN >= 0xF000) or
\* the PGN's low byte in bits 8-15 and the source address mod 256 in bits
\* 0-7; PGN 61444 with source address 0 gives 0x18F0FF00.
C6_CanIdLayout ==
    (encIn.kind = "can_id" /\ encOut.done) =>
        LET id == encOut.res.val
        IN  /\ id >= 0 /\ id < 2 ^ 29
            /\ (id \div (2 ^ 26)) % 8 = 6
            /\ (id \div (2 ^ 24)) % 4 = 0
            /\ (id \div (2 ^ 16)) % 256 = (encIn.pgn \div 256) % 256
            /\ (id \div (2 ^ 8)) % 256 =
                  (IF encIn.pgn >= 61440 THEN 255 ELSE encIn.pgn % 256)
            /\ id % 256 = encIn.source_address % 256
            /\ (encIn.pgn = 61444 /\ encIn.source_address = 0) => id = 418447104

\* a PGN below 0xF000 with a source address above 255
C6_Witness ==
    /\ encIn.kind = "can_id"
    /\ encOut.done
    /\ encIn.pgn = 4660 /\ encIn.source_address = 511
    /\ encOut.res.val = 403846399

====
